---- MODULE Spec2Model ----
(***************************************************************************)
(* MHS Calculator (app.py): the per-order capacity network, the serial     *)
(* timeline with changeovers and the summary, as one evaluation pass of    *)
(* the script over the order table, the commodity catalog and the global   *)
(* sort-worker count.                                                      *)
(*                                                                         *)
(* Numbers.  Inches, ft/min are kept in tenths (the editors' step is 0.1   *)
(* or 0.5).  A Python float that is a rate is an exact fraction            *)
(* [n, d] (d > 0).  A float that is a time is [g, n, d]: g * 10^9 + n/d    *)
(* minutes, g counting the 10^9 minutes a division by the 1e-9 floor       *)
(* yields; d = 0 stands for the ZeroDivisionError of a division by 0.      *)
(* A value rounded to one decimal is [g, t]: g * 10^9 minutes + t tenths.  *)
(* round() is Python's: to nearest, an exact tie to the even digit (a      *)
(* decimal tie that no binary float holds goes the way its float lies;    *)
(* no property below depends on the direction of a tie).  The metric       *)
(* cards and tables are rendering and carry no state.                      *)
(***************************************************************************)
EXTENDS Integers, Sequences, FiniteSets, TLC

\* ---------- Constraints (app.py 13-25) ----------
MAX_INBOUND_DOORS == 6
PNA_LIMIT_PER_LANE_CPM == 19
PNA_MERGE_LIMIT_CPM == 40
INCHSTORE_LIMIT_PER_LANE == 42
INDUCT_WORKER_CPM == 12
SORT_WORKER_CPM == 5
\* 3.0 inches, in tenths of an inch
MIN_CELL_GAP_IN == 30
FORKLIFT_PALLETS_PER_MIN == 1
\* comm_to_len.get(comm, 22.5), comm_to_cspd.get(comm, 13.0), in tenths
DefaultLength == 225
DefaultCellSpeed == 130
\* the floor 1e-9 of the divisions is 1 / EpsInv
EpsInv == 1000000000

\* ---------- bounds of the model ----------
MaxOrders == 3

VARIABLES comm_to_len, comm_to_cspd, orders, sort_workers,
          pc, order_rows, out_cols, timeline_records, t_clock,
          total_runtime_min, tot_pallets, tot_cases, n_orders, error

vars == <<comm_to_len, comm_to_cspd, orders, sort_workers,
          pc, order_rows, out_cols, timeline_records, t_clock,
          total_runtime_min, tot_pallets, tot_cases, n_orders, error>>

\* ---------- arithmetic of the floats ----------
Abs(x) == IF x < 0 THEN -x ELSE x

RECURSIVE GCD(_, _)
GCD(a, b) == IF b = 0 THEN a ELSE GCD(b, a % b)

\* the fraction n/d in lowest terms with a positive denominator (d # 0)
Rat(n, d) ==
    LET g == GCD(Abs(n), Abs(d))
        s == IF d < 0 THEN -1 ELSE 1
    IN  [n |-> s * (n \div g), d |-> s * (d \div g)]

RatInt(k) == [n |-> k, d |-> 1]
RatLeq(a, b) == a.n * b.d <= b.n * a.d
RatLt(a, b) == a.n * b.d < b.n * a.d
RatMin(a, b) == IF RatLeq(a, b) THEN a ELSE b
RatScale(k, a) == Rat(k * a.n, a.d)
\* a / b for b # 0
RatDiv(a, b) == Rat(a.n * b.d, a.d * b.n)

EPS == [n |-> 1, d |-> EpsInv]

\* r <= 1e-9, without forming r.n * 10^9
LeqEps(r) == r.n <= 0 \/ (r.d \div r.n) >= EpsInv

\* round(x, k) of the fraction n/d scaled to the k-th decimal: num/den to
\* the nearest integer, an exact tie to the even one (den > 0)
RoundHalfEven(num, den) ==
    LET q == num \div den
        r == num % den
    IN  IF 2 * r < den THEN q
        ELSE IF 2 * r > den THEN q + 1
        ELSE IF q % 2 = 0 THEN q ELSE q + 1

\* round(r, 1) and round(r, 2) of a rate: tenths, hundredths
RoundRate1(r) == RoundHalfEven(10 * r.n, r.d)
RoundRate2(r) == RoundHalfEven(100 * r.n, r.d)

\* total / r in minutes, r a rate
Quot(total, r) ==
    IF r.n = 0 THEN [g |-> 0, n |-> total, d |-> 0]
    ELSE IF r = EPS THEN [g |-> total, n |-> 0, d |-> 1]
    ELSE IF r.n < 0 THEN [g |-> 0, n |-> -(total * r.d), d |-> -r.n]
    ELSE [g |-> 0, n |-> total * r.d, d |-> r.n]

\* round(t, 1) of a time
Round1(t) == [g |-> t.g, t |-> RoundHalfEven(10 * t.n, t.d)]

\* float(x) of a one-decimal value, and the float sums of the timeline
DecToTime(x) == [g |-> x.g, n |-> x.t, d |-> 10]
TimeAdd(a, b) ==
    LET r == Rat(a.n * b.d + b.n * a.d, a.d * b.d)
    IN  [g |-> a.g + b.g, n |-> r.n, d |-> r.d]
TimeLeq(a, b) == a.g < b.g \/ (a.g = b.g /\ a.n * b.d <= b.n * a.d)
TimeZero == [g |-> 0, n |-> 0, d |-> 1]
DecZero == [g |-> 0, t |-> 0]

\* ---------- Utility functions ----------
Max(a, b) == IF b > a THEN b ELSE a
Min(a, b) == IF b < a THEN b ELSE a

\* cases/min/lane from the cell; speed, length and gap in tenths
cell_rate_per_lane_cpm(cell_speed_fpm, box_len_in, gap_in) ==
    LET gap == Max(gap_in, MIN_CELL_GAP_IN)
        ft_per_case == Rat(box_len_in + gap, 120)
    IN  IF ft_per_case.n <= 0 THEN RatInt(0)
        ELSE RatDiv(Rat(cell_speed_fpm, 10), ft_per_case)

\* the upper band taken from 5 lanes on
changeover_minutes_Gt4(lanes_used) ==
    IF lanes_used <= 2 THEN 2
    ELSE IF lanes_used > 4 THEN 7
    ELSE 4

changeover_minutes(lanes_used) ==
    IF lanes_used <= 2 THEN 2
    ELSE IF lanes_used >= 4 THEN 7
    ELSE 4

\* the rate itself, no floor
MaxEps_NoFloor(r) == r

\* max(x, 1e-9)
MaxEps(r) == IF LeqEps(r) THEN EPS ELSE r

\* ---------- Per-order compute (the locals of compute_order_row) ----------
total_cases(row) == row.Pallets * row.CasesPerPallet

length_in(row) ==
    IF row.Commodity \in DOMAIN comm_to_len
    THEN comm_to_len[row.Commodity] ELSE DefaultLength

cspd_fpm(row) ==
    IF row.Commodity \in DOMAIN comm_to_cspd
    THEN comm_to_cspd[row.Commodity] ELSE DefaultCellSpeed

feed_per_lane_cpm(row) == row.WorkersPerLane * INDUCT_WORKER_CPM
pna_lane_cpm(row) == Min(feed_per_lane_cpm(row), PNA_LIMIT_PER_LANE_CPM)
pna_total_cpm(row) == row.InboundLanesUsed * pna_lane_cpm(row)

cell_lane_cpm(row) ==
    cell_rate_per_lane_cpm(cspd_fpm(row), length_in(row), row.CellGap_in)
\* max in place of min
lane_after_cell_Max(row) ==
    IF RatLeq(cell_lane_cpm(row), RatInt(INCHSTORE_LIMIT_PER_LANE))
    THEN RatInt(INCHSTORE_LIMIT_PER_LANE) ELSE cell_lane_cpm(row)

lane_after_cell(row) ==
    RatMin(cell_lane_cpm(row), RatInt(INCHSTORE_LIMIT_PER_LANE))
post_cell_total(row) == RatScale(row.InboundLanesUsed, lane_after_cell(row))

\* the merge ceiling left out
upstream_cap_cpm_NoMerge(row) ==
    RatMin(RatInt(pna_total_cpm(row)), post_cell_total(row))

upstream_cap_cpm(row) ==
    RatMin(RatMin(RatInt(pna_total_cpm(row)), post_cell_total(row)),
           RatInt(PNA_MERGE_LIMIT_CPM))

sort_cap_cpm == sort_workers * SORT_WORKER_CPM

system_cap_cpm(row) == RatMin(upstream_cap_cpm(row), RatInt(sort_cap_cpm))
system_cap_cph(row) == RatScale(60, system_cap_cpm(row))

t_offload_min(row) == Quot(row.Pallets, RatInt(FORKLIFT_PALLETS_PER_MIN))
t_process_min(row) == Quot(total_cases(row), MaxEps(system_cap_cpm(row)))
t_load_min(row) == Quot(row.Pallets, RatInt(FORKLIFT_PALLETS_PER_MIN))

t_cell_span_min(row) ==
    Quot(total_cases(row),
         MaxEps(RatMin(RatScale(row.InboundLanesUsed, cell_lane_cpm(row)),
                       RatInt(PNA_MERGE_LIMIT_CPM))))

pna_eff(row) ==
    IF PNA_LIMIT_PER_LANE_CPM > 0
    THEN Rat(pna_lane_cpm(row), PNA_LIMIT_PER_LANE_CPM) ELSE RatInt(0)
pna_merge_eff(row) ==
    IF PNA_MERGE_LIMIT_CPM > 0
    THEN Rat(Min(pna_total_cpm(row), PNA_MERGE_LIMIT_CPM), PNA_MERGE_LIMIT_CPM)
    ELSE RatInt(0)
treat_eff(row) ==
    IF cell_lane_cpm(row).n > 0
    THEN RatDiv(lane_after_cell(row), MaxEps(cell_lane_cpm(row)))
    ELSE RatInt(0)

chg_min(row) == changeover_minutes(row.InboundLanesUsed)

\* a division of compute_order_row raises ZeroDivisionError
Raises(row) ==
    \/ t_offload_min(row).d = 0
    \/ t_process_min(row).d = 0
    \/ t_load_min(row).d = 0
    \/ t_cell_span_min(row).d = 0

\* the dict compute_order_row returns; rates in tenths or hundredths as
\* rounded, percentages in tenths of a percent
compute_order_row(row) ==
    [ Customer |-> row.Customer,
      Commodity |-> row.Commodity,
      Pallets |-> row.Pallets,
      CasesXPallet |-> row.CasesPerPallet,
      TotalCases |-> total_cases(row),
      InboundLanesUsed |-> row.InboundLanesUsed,
      WorkersPerLane |-> row.WorkersPerLane,
      CellGap |-> RoundRate1(Rat(row.CellGap_in, 10)),
      PnARate |-> RoundRate2(RatInt(pna_lane_cpm(row))),
      PnAEff |-> RoundRate1(RatScale(100, pna_eff(row))),
      PnAMergeRate |->
          RoundRate2(RatInt(Min(pna_total_cpm(row), PNA_MERGE_LIMIT_CPM))),
      PnAMergeEff |-> RoundRate1(RatScale(100, pna_merge_eff(row))),
      TreatmentRate |-> RoundRate2(cell_lane_cpm(row)),
      TreatmentEff |-> RoundRate1(RatScale(100, treat_eff(row))),
      ECPCrossfire |-> "-",
      CasesInductedAtPnA |-> total_cases(row),
      CasesAtPnAMerge |-> total_cases(row),
      TimeToOffload |-> Round1(t_offload_min(row)),
      TimeThroughMHS |-> Round1(t_process_min(row)),
      TimeToLoad |-> Round1(t_load_min(row)),
      CellFirstToLast |-> Round1(t_cell_span_min(row)),
      ChangeoverToNext |-> chg_min(row),
      SystemBottleneck |-> RoundRate2(system_cap_cpm(row)),
      SystemThroughput |-> RoundRate1(system_cap_cph(row)) ]

display_cols ==
    { "Customer", "Commodity", "Pallets", "CasesXPallet", "TotalCases",
      "InboundLanesUsed", "WorkersPerLane", "CellGap",
      "PnARate", "PnAEff", "PnAMergeRate", "PnAMergeEff",
      "TreatmentRate", "TreatmentEff", "ECPCrossfire",
      "CasesInductedAtPnA", "CasesAtPnAMerge",
      "TimeToOffload", "TimeThroughMHS", "TimeToLoad", "CellFirstToLast",
      "ChangeoverToNext", "SystemBottleneck", "SystemThroughput" }

\* ---------- the inputs ----------
\* default_comm, orders_default and the sidebar's value=6
default_comm_len == [c \in {"Oysters"} |-> 225]
default_comm_cspd == [c \in {"Oysters"} |-> 130]

Order(cust, comm, p, cpp, lanes, wpl, gap) ==
    [ Customer |-> cust, Commodity |-> comm, Pallets |-> p,
      CasesPerPallet |-> cpp, InboundLanesUsed |-> lanes,
      WorkersPerLane |-> wpl, CellGap_in |-> gap ]

orders_default ==
    << Order("La imperial", "Oysters", 10, 50, 3, 1, 30),
       Order("Youngstown", "Oysters", 20, 220, 5, 1, 30),
       Order("Sweet Seasons", "Oysters", 15, 120, 2, 1, 30) >>

default_sort_workers == 6

\* what the order editor is set to in the runs of Spec: two customers,
\* two order sizes <<pallets, cases per pallet>>, one lane count per
\* changeover band
Customers == {"La imperial", "Youngstown"}
Sizes == {<<0, 50>>, <<10, 50>>}
LaneChoices == {2, 3, 5}

EditedOrder ==
    { Order(c, "Oysters", s[1], s[2], l, 1, 30) :
        c \in Customers, s \in Sizes, l \in LaneChoices }

\* ---------- the evaluation pass ----------
RECURSIVE SumPallets(_)
SumPallets(os) ==
    IF os = <<>> THEN 0 ELSE os[1].Pallets + SumPallets(Tail(os))

\* orders["Pallets"].sum() * orders["CasesPerPallet"].sum()
RECURSIVE SumCpp(_)
SumCpp(os) ==
    IF os = <<>> THEN 0 ELSE os[1].CasesPerPallet + SumCpp(Tail(os))
SumCases_ProductOfSums(os) == SumPallets(os) * SumCpp(os)

RECURSIVE SumCases(_)
SumCases(os) ==
    IF os = <<>> THEN 0
    ELSE os[1].Pallets * os[1].CasesPerPallet + SumCases(Tail(os))

StartPass ==
    /\ pc = "rows"
    /\ order_rows = <<>>
    /\ out_cols = {}
    /\ timeline_records = <<>>
    /\ t_clock = TimeZero
    /\ total_runtime_min = DecZero
    /\ tot_pallets = 0
    /\ tot_cases = 0
    /\ n_orders = 0
    /\ error = "none"

Init ==
    /\ comm_to_len = default_comm_len
    /\ comm_to_cspd = default_comm_cspd
    /\ orders = orders_default
    /\ sort_workers = default_sort_workers
    /\ StartPass

inputs == <<comm_to_len, comm_to_cspd, orders, sort_workers>>

\* order_rows.insert(0, ...) in place of append
BuildRow_Prepend ==
    /\ pc = "rows"
    /\ Len(order_rows) < Len(orders)
    /\ LET r == orders[Len(order_rows) + 1]
       IN  IF Raises(r)
           THEN /\ error' = "ZeroDivisionError"
                /\ pc' = "error"
                /\ UNCHANGED order_rows
           ELSE /\ order_rows' = <<compute_order_row(r)>> \o order_rows
                /\ UNCHANGED <<pc, error>>
    /\ UNCHANGED <<inputs, out_cols, timeline_records, t_clock,
                   total_runtime_min, tot_pallets, tot_cases, n_orders>>

\* for _, r in orders.iterrows(): order_rows.append(compute_order_row(r))
BuildRow ==
    /\ pc = "rows"
    /\ Len(order_rows) < Len(orders)
    /\ LET r == orders[Len(order_rows) + 1]
       IN  IF Raises(r)
           THEN /\ error' = "ZeroDivisionError"
                /\ pc' = "error"
                /\ UNCHANGED order_rows
           ELSE /\ order_rows' = Append(order_rows, compute_order_row(r))
                /\ UNCHANGED <<pc, error>>
    /\ UNCHANGED <<inputs, out_cols, timeline_records, t_clock,
                   total_runtime_min, tot_pallets, tot_cases, n_orders>>

\* out_df = pd.DataFrame(order_rows); timeline_records = []; t_clock = 0.0
\* (the frame of an empty list has no columns)
RowsDone ==
    /\ pc = "rows"
    /\ Len(order_rows) = Len(orders)
    /\ out_cols' = IF order_rows = <<>> THEN {} ELSE DOMAIN order_rows[1]
    /\ timeline_records' = <<>>
    /\ t_clock' = TimeZero
    /\ pc' = "timeline"
    /\ UNCHANGED <<inputs, order_rows, total_runtime_min, tot_pallets,
                   tot_cases, n_orders, error>>

\* float(r["Changeover to Next (min)"])
IntToTime(k) == [g |-> 0, n |-> k, d |-> 1]

\* t_clock = t_finish, the changeover left out
t_clock_next_NoChangeover(t_finish, r) == t_finish

\* t_clock = t_finish + float(r["Changeover to Next (min)"])
t_clock_next(t_finish, r) == TimeAdd(t_finish, IntToTime(r.ChangeoverToNext))

\* one iteration of: for idx, r in out_df.iterrows()
TimelineStep ==
    /\ pc = "timeline"
    /\ Len(timeline_records) < Len(order_rows)
    /\ LET idx == Len(timeline_records)
           r == order_rows[idx + 1]
           t_start == t_clock
           t_order == TimeAdd(TimeAdd(DecToTime(r.TimeToOffload),
                                      DecToTime(r.TimeThroughMHS)),
                              DecToTime(r.TimeToLoad))
           t_finish == TimeAdd(t_start, t_order)
       IN  /\ timeline_records' =
                Append(timeline_records,
                       [ Order |-> idx + 1,
                         Customer |-> r.Customer,
                         Start |-> Round1(t_start),
                         Finish |-> Round1(t_finish) ])
           /\ t_clock' = t_clock_next(t_finish, r)
    /\ UNCHANGED <<inputs, pc, order_rows, out_cols, total_runtime_min,
                   tot_pallets, tot_cases, n_orders, error>>

\* .iloc[0] in place of .iloc[-1]
last_finish_First(recs) ==
    IF recs # <<>> THEN recs[1].Finish ELSE DecZero

\* float(timeline_df["Finish (min)"].iloc[-1]) if not timeline_df.empty else 0.0
last_finish(recs) ==
    IF recs # <<>> THEN recs[Len(recs)].Finish ELSE DecZero

\* timeline_df = pd.DataFrame(timeline_records); total_runtime_min = ...
TimelineDone ==
    /\ pc = "timeline"
    /\ Len(timeline_records) = Len(order_rows)
    /\ total_runtime_min' = last_finish(timeline_records)
    /\ pc' = "summary"
    /\ UNCHANGED <<inputs, order_rows, out_cols, timeline_records, t_clock,
                   tot_pallets, tot_cases, n_orders, error>>

\* Summary cards
Summary ==
    /\ pc = "summary"
    /\ tot_pallets' = SumPallets(orders)
    /\ tot_cases' = SumCases(orders)
    /\ n_orders' = Len(orders)
    /\ pc' = "display"
    /\ UNCHANGED <<inputs, order_rows, out_cols, timeline_records, t_clock,
                   total_runtime_min, error>>

\* st.dataframe(out_df[display_cols]): a column that out_df lacks is a
\* KeyError, which ends the script
Display ==
    /\ pc = "display"
    /\ IF display_cols \subseteq out_cols
       THEN /\ pc' = "done"
            /\ UNCHANGED error
       ELSE /\ pc' = "error"
            /\ error' = "KeyError"
    /\ UNCHANGED <<inputs, order_rows, out_cols, timeline_records, t_clock,
                   total_runtime_min, tot_pallets, tot_cases, n_orders>>

\* the script starts again from its first line
Restart ==
    /\ pc' = "rows"
    /\ order_rows' = <<>>
    /\ out_cols' = {}
    /\ timeline_records' = <<>>
    /\ t_clock' = TimeZero
    /\ total_runtime_min' = DecZero
    /\ tot_pallets' = 0
    /\ tot_cases' = 0
    /\ n_orders' = 0
    /\ error' = "none"

\* the user adds a row to the order table (num_rows="dynamic"): Streamlit
\* runs the script again
AddRow ==
    /\ pc \in {"done", "error"}
    /\ Len(orders) < MaxOrders
    /\ \E o \in EditedOrder : orders' = Append(orders, o)
    /\ UNCHANGED <<comm_to_len, comm_to_cspd, sort_workers>>
    /\ Restart

\* the user deletes a row of the order table
DeleteRow ==
    /\ pc \in {"done", "error"}
    /\ \E k \in 1..Len(orders) :
          orders' = SubSeq(orders, 1, k - 1) \o SubSeq(orders, k + 1, Len(orders))
    /\ UNCHANGED <<comm_to_len, comm_to_cspd, sort_workers>>
    /\ Restart

Pass == BuildRow \/ RowsDone \/ TimelineStep \/ TimelineDone \/ Summary \/ Display

Next == Pass \/ AddRow \/ DeleteRow

Spec == Init /\ [][Next]_vars

\* ---------- one order through compute_order_row ----------
\* the catalog editor has no minimum: a speed or a length may be zero or
\* negative; "Clams" is a commodity the catalog does not hold
CatalogEntries == {<<225, 130>>, <<225, 0>>, <<225, -130>>, <<-30, 130>>, <<225, 1000>>}
Catalogs ==
    {<<>>} \cup { [c \in {"Oysters"} |-> e] : e \in CatalogEntries }
RowCommodities == {"Oysters", "Clams"}
RowPallets == {0, 10}
RowCpp == {0, 50}
RowLanes == 1..MAX_INBOUND_DOORS
RowWorkers == {1, 2, 10}
RowGaps == {30, 35}
SortWorkerChoices == {1, 6, 9, 50}

RowOrder ==
    { Order("La imperial", comm, p, cpp, l, w, g) :
        comm \in RowCommodities, p \in RowPallets, cpp \in RowCpp,
        l \in RowLanes, w \in RowWorkers, g \in RowGaps }

InitRow ==
    /\ \E cat \in Catalogs :
          /\ comm_to_len = [c \in DOMAIN cat |-> cat[c][1]]
          /\ comm_to_cspd = [c \in DOMAIN cat |-> cat[c][2]]
    /\ \E o \in RowOrder : orders = <<o>>
    /\ sort_workers \in SortWorkerChoices
    /\ StartPass

SpecRow == InitRow /\ [][Pass]_vars

\* ---------- the claims ----------
DecPlus(x, tenths) == [g |-> x.g, t |-> x.t + tenths]

RowsBuilt == pc \in {"timeline", "summary", "display", "done"}
TimelineBuilt == pc \in {"summary", "display", "done"}

\* C1: the first timeline entry starts at 0, and every later entry starts at
\* the Finish of the entry before it plus the changeover of that entry's
\* lane count.
C1_StartAfterChangeover ==
    /\ timeline_records # <<>> => timeline_records[1].Start = DecZero
    /\ \A i \in 1..(Len(timeline_records) - 1) :
          timeline_records[i + 1].Start =
             DecPlus(timeline_records[i].Finish,
                     10 * changeover_minutes(orders[i].InboundLanesUsed))

C1_Witness ==
    /\ pc = "done"
    /\ Len(timeline_records) = 3
    /\ orders[1].InboundLanesUsed = 3
    /\ orders[2].InboundLanesUsed = 5
    /\ timeline_records[2].Start.t = timeline_records[1].Finish.t + 40
    /\ timeline_records[3].Start.t = timeline_records[2].Finish.t + 70
    /\ timeline_records[1].Finish.t > 0

\* C2: the duration of every timeline entry, Finish minus Start, is exactly
\* offload + process + load of its order, with offload = load = pallets / 1.0
\* and process = total_cases / max(bottleneck, 1e-9).
C2_DurationIsExactSum ==
    \A k \in 1..Len(timeline_records) :
       LET e == timeline_records[k]
           exact == TimeAdd(TimeAdd(t_offload_min(orders[k]),
                                    t_process_min(orders[k])),
                            t_load_min(orders[k]))
       IN  /\ e.Finish.g - e.Start.g = exact.g
           /\ (e.Finish.t - e.Start.t) * exact.d = 10 * exact.n

\* C3: the total elapsed time is the Finish of the last timeline entry; the
\* last order's changeover is in the running clock only, not in the total.
C3_TotalIsLastFinish ==
    (TimelineBuilt /\ timeline_records # <<>>) =>
       LET n == Len(timeline_records)
       IN  /\ total_runtime_min = timeline_records[n].Finish
           /\ t_clock = TimeAdd(DecToTime(total_runtime_min),
                                IntToTime(changeover_minutes(orders[n].InboundLanesUsed)))

C3_Witness ==
    /\ pc = "done"
    /\ Len(timeline_records) = 3
    /\ total_runtime_min = timeline_records[3].Finish
    /\ timeline_records[3].Finish # timeline_records[1].Finish
    /\ total_runtime_min.t > 0

\* C4: results and timeline have one entry per input order, in the input
\* order: the k-th result and the k-th timeline entry (Order # = k, same
\* Customer) are those of the k-th order.
C4_OrderPreserved ==
    /\ Len(order_rows) <= Len(orders)
    /\ RowsBuilt => Len(order_rows) = Len(orders)
    /\ TimelineBuilt => Len(timeline_records) = Len(orders)
    /\ \A k \in 1..Len(order_rows) :
          /\ order_rows[k].Customer = orders[k].Customer
          /\ order_rows[k].Pallets = orders[k].Pallets
          /\ order_rows[k].CasesXPallet = orders[k].CasesPerPallet
          /\ order_rows[k].InboundLanesUsed = orders[k].InboundLanesUsed
    /\ \A k \in 1..Len(timeline_records) :
          /\ timeline_records[k].Order = k
          /\ timeline_records[k].Customer = orders[k].Customer

C4_Witness ==
    /\ pc = "done"
    /\ Len(orders) = 3
    /\ Len(timeline_records) = 3
    /\ orders[1].Customer # orders[2].Customer
    /\ orders[1].InboundLanesUsed # orders[3].InboundLanesUsed
    /\ timeline_records[2].Customer = orders[2].Customer

\* C5: the system bottleneck of every evaluated order is at most 40
\* cases/min, as computed and as stored (hundredths).
C5_BottleneckAtMost40 ==
    \A k \in 1..Len(order_rows) :
       /\ RatLeq(system_cap_cpm(orders[k]), RatInt(40))
       /\ order_rows[k].SystemBottleneck <= 4000

C5_Witness ==
    /\ Len(order_rows) = 1
    /\ pna_total_cpm(orders[1]) > 40
    /\ RatLt(RatInt(40), post_cell_total(orders[1]))
    /\ sort_cap_cpm > 40
    /\ order_rows[1].SystemBottleneck = 4000

\* C6: changeover_minutes is 2 for every lane count <= 2, 4 for 3 and 7 for
\* every lane count >= 4, and the changeover stored with every evaluated
\* order is that value.
C6_ChangeoverBands ==
    /\ \A n \in -4..12 :
          changeover_minutes(n) =
             IF n <= 2 THEN 2 ELSE IF n = 3 THEN 4 ELSE 7
    /\ \A k \in 1..Len(order_rows) :
          LET l == orders[k].InboundLanesUsed
          IN  order_rows[k].ChangeoverToNext =
                 IF l <= 2 THEN 2 ELSE IF l = 3 THEN 4 ELSE 7

C6_Witness ==
    /\ Len(order_rows) = 1
    /\ orders[1].InboundLanesUsed = 4
    /\ order_rows[1].ChangeoverToNext = 7

\* C7: with an empty order table the pass raises no error and ends with an
\* empty timeline and total_pallets, total_cases, order_count and
\* total_elapsed all 0.
C7_EmptyPassEndsClean ==
    orders = <<>> =>
       /\ error = "none"
       /\ pc # "error"
       /\ pc = "done" =>
             /\ timeline_records = <<>>
             /\ tot_pallets = 0
             /\ tot_cases = 0
             /\ n_orders = 0
             /\ total_runtime_min = DecZero

RECURSIVE SumTotalCases(_)
SumTotalCases(rows) ==
    IF rows = <<>> THEN 0 ELSE rows[1].TotalCases + SumTotalCases(Tail(rows))

RECURSIVE SumRowPallets(_)
SumRowPallets(rows) ==
    IF rows = <<>> THEN 0 ELSE rows[1].Pallets + SumRowPallets(Tail(rows))

\* C8: the summary's total cases and total pallets, computed from the order
\* table, equal the sums of the Total Cases and Pallets fields of the
\* per-order results.
C8_SummaryAgreesWithRows ==
    (pc \in {"display", "done"} \/ (pc = "error" /\ error = "KeyError")) =>
       /\ tot_cases = SumTotalCases(order_rows)
       /\ tot_pallets = SumRowPallets(order_rows)

C8_Witness ==
    /\ pc = "done"
    /\ Len(order_rows) = 3
    /\ order_rows[1].TotalCases > 0
    /\ order_rows[2].TotalCases > 0
    /\ order_rows[1].CasesXPallet # order_rows[3].CasesXPallet
    /\ tot_cases = SumTotalCases(order_rows)

FiniteNonNegative(t) == t.d > 0 /\ t.g >= 0 /\ t.n >= 0

\* C9: no division of the evaluation fails; when the system bottleneck is
\* zero or negative the processing time is total_cases / 1e-9, and when
\* lanes x cell rate is zero or negative the cell-span time is
\* total_cases / 1e-9: both finite and non-negative.
C9_FlooredDivision ==
    /\ error # "ZeroDivisionError"
    /\ \A k \in 1..Len(order_rows) :
          LET o == orders[k]
              tc == total_cases(o)
          IN  /\ FiniteNonNegative(t_process_min(o))
              /\ FiniteNonNegative(t_cell_span_min(o))
              /\ system_cap_cpm(o).n <= 0 =>
                    /\ t_process_min(o) = [g |-> tc, n |-> 0, d |-> 1]
                    /\ order_rows[k].TimeThroughMHS = [g |-> tc, t |-> 0]
              /\ RatScale(o.InboundLanesUsed, cell_lane_cpm(o)).n <= 0 =>
                    /\ t_cell_span_min(o) = [g |-> tc, n |-> 0, d |-> 1]
                    /\ order_rows[k].CellFirstToLast = [g |-> tc, t |-> 0]

C9_Witness ==
    /\ pc = "done"
    /\ Len(order_rows) = 1
    /\ system_cap_cpm(orders[1]).n < 0
    /\ total_cases(orders[1]) = 500
    /\ order_rows[1].TimeThroughMHS = [g |-> 500, t |-> 0]
    /\ order_rows[1].CellFirstToLast = [g |-> 500, t |-> 0]

\* C10: for every evaluated order (lanes, workers per lane and sort workers
\* all at least 1) the cell-span time is at most the processing time.
C10_CellSpanWithinProcess ==
    \A k \in 1..Len(order_rows) :
       LET o == orders[k]
       IN  (o.InboundLanesUsed >= 1 /\ o.WorkersPerLane >= 1 /\ sort_workers >= 1) =>
              TimeLeq(t_cell_span_min(o), t_process_min(o))

C10_Witness ==
    /\ pc = "done"
    /\ Len(order_rows) = 1
    /\ total_cases(orders[1]) > 0
    /\ cell_lane_cpm(orders[1]).n > 0
    /\ ~TimeLeq(t_process_min(orders[1]), t_cell_span_min(orders[1]))
    /\ RatLt(RatInt(INCHSTORE_LIMIT_PER_LANE), cell_lane_cpm(orders[1]))
====
